---- MODULE Spec2Model ----
(***************************************************************************)
(* Model of cmd/mailgun-sendmail/main.go.                                  *)
(*                                                                         *)
(* Two parts of the program are modelled:                                  *)
(*   - dotStopReader (main.go:202-246), the reader that stops at a         *)
(*     "\n.\n" line, driven by a caller that issues Read calls and by an   *)
(*     underlying io.Reader that hands out the input in fragments;         *)
(*     specification Spec.                                                 *)
(*   - func main (main.go:80-200), the assembly of recipients and header   *)
(*     block that ends in mg.MailMIME; specification MainSpec.             *)
(* Bytes are modelled by their integer values.                             *)
(***************************************************************************)
EXTENDS Integers, Sequences, FiniteSets, TLC

\* ------------------------------------------------------------------------
\* Program constants
\* ------------------------------------------------------------------------
CR == 13
LF == 10
DOT == 46
MinBuf == 4
Done == 3
ExtraLen == 3

\* ------------------------------------------------------------------------
\* Bounds of the model
\* ------------------------------------------------------------------------
\* longest input drawn from Alphabet
MaxLen == 5
\* largest destination buffer a caller passes to Read
MaxBuf == 5
\* Read calls that may still be issued after end-of-stream has been returned
MaxEofs == 2
\* largest number of positional arguments
MaxArgs == 2

\* bytes the generated inputs are made of: a line feed, '.', and 'a'
Alphabet == {LF, DOT, 97}

\* "Hello\r\n.\r\nworld"
Hello == <<72, 101, 108, 108, 111, CR, LF, DOT, CR, LF, 119, 111, 114, 108, 100>>
\* "a\r\n..\r\nb"
TwoDots == <<97, CR, LF, DOT, DOT, CR, LF, 98>>
\* "\na.\n.\n": a line "a." followed by a line "."
DotLine == <<LF, 97, DOT, LF, DOT, LF>>

\* all sequences over S of length at most n
RECURSIVE SeqsUpTo(_, _)
SeqsUpTo(S, n) ==
  IF n = 0 THEN {<<>>}
  ELSE LET shorter == SeqsUpTo(S, n - 1)
       IN shorter \cup {Append(s, c) : s \in {t \in shorter : Len(t) = n - 1}, c \in S}

Inputs == SeqsUpTo(Alphabet, MaxLen) \cup {Hello, TwoDots, DotLine}

\* len(b) of the Read calls: an empty buffer, the largest undersized one, and
\* every legal length up to MaxBuf
BufLens == {0, MinBuf - 1} \cup (MinBuf..MaxBuf)

Min(a, b) == IF a < b THEN a ELSE b

VARIABLES
  input,     \* the bytes the underlying reader r.r will deliver
  pos,       \* number of bytes r.r has delivered so far
  srcReads,  \* number of Read calls made on r.r
  srcEOF,    \* r.r has reported io.EOF
  state,     \* dotStopReader.state
  extra,     \* dotStopReader.extra, a [3]byte
  out,       \* concatenation of the bytes returned to the caller
  lastN,     \* byte count returned by the last Read call
  lastErr,   \* error returned by the last Read call: "nil", "EOF"; "none" before
  lastBuf,   \* len(b) of the last Read call
  calls,     \* number of Read calls on the dotStopReader
  eofs,      \* number of Read calls that returned io.EOF
  panicked   \* a Read call has panicked

fvars == <<input, pos, srcReads, srcEOF, state, extra, out, lastN, lastErr,
           lastBuf, calls, eofs, panicked>>

VARIABLES
  pc,          \* position of func main: the next step, "done" or "died"
  dieMsg,      \* the error passed to mg.Die, "" while running
  mgflags,     \* debug values accepted so far (mg.DebugHTTP, mg.DisableMail)
  tflag,       \* -t
  args,        \* flag.Args()
  to,          \* the recipient list
  from,        \* the default sender
  stdinHeader, \* the header of the message as read from stdin
  header,      \* msg.Header
  hdr,         \* the serialized header block
  wrapped,     \* body is a dotStopReader
  sent,        \* the calls of mg.MailMIME, in order
  dflag,       \* -d, the list of debug values
  bflag,       \* -b
  Fflag,       \* -F
  fflag,       \* -f or -r
  user,        \* $USER
  isTTY,       \* mg.IsTTY
  iflag,       \* -i
  stdinBody    \* the bytes of the message body on stdin

mvars == <<pc, dieMsg, mgflags, tflag, args, to, from, stdinHeader, header, hdr,
           wrapped, sent, dflag, bflag, Fflag, fflag, user, isTTY, iflag, stdinBody>>

\* ------------------------------------------------------------------------
\* dotStopReader.Read
\* ------------------------------------------------------------------------
IsBreak(c) == c = CR \/ c = LF

\* the switch of the scan loop, for one byte c in state s
ScanStep(s, c) ==
  CASE s = 0 -> IF IsBreak(c) THEN 1 ELSE 0
    [] s = 1 -> IF c = DOT THEN 2 ELSE 1
    [] s = 2 -> IF IsBreak(c) THEN 3 ELSE 2
    [] OTHER -> s

\* the loop over b[:n], from (1-based) index i in state s; on reaching
\* state 3 at index i the count becomes i (n = i + 1 for 0-based i).
RECURSIVE Scan(_, _, _, _)
Scan(b, n, i, s) ==
  IF i > n THEN [state |-> s, n |-> n]
  ELSE LET s2 == ScanStep(s, b[i])
       IN IF s2 = 3 THEN [state |-> 3, n |-> i]
          ELSE Scan(b, n, i + 1, s2)

\* copy(dst, src): the first min(len) elements of dst are overwritten
CopyInto(dst, src) ==
  [i \in 1..Len(dst) |-> IF i <= Len(src) THEN src[i] ELSE dst[i]]

\* b[off:] for a 0-based offset
SliceFrom(b, off) == SubSeq(b, off + 1, Len(b))

\* variant of TooSmall: the length check is off by one
TooSmallLax(blen) == blen < MinBuf - 1

\* the panic guard
TooSmall(blen) == blen < MinBuf

\* variant of AtDone: the finished reader does not return early
AtDoneNever(s) == FALSE

\* the early return of a finished reader
AtDone(s) == s = Done

\* variant of CarryIn: the saved bytes are not copied back into b
CarryInStale(ex, s) == [i \in 1..s |-> 0]

\* the bytes copied to the front of b before the underlying read
CarryIn(ex, s) == SubSeq(ex, 1, s)

\* the bytes saved from b when the scan ends in state s with count n
CarryOut(ex, b, n, s) == IF s > 0 THEN CopyInto(ex, SliceFrom(b, n - s)) ELSE ex

\* variant of Kept: the saved bytes are returned to the caller as well
KeptAll(n, s) == n

\* the count returned when the scan ends in state s with count n
Kept(n, s) == IF s > 0 THEN n - s ELSE n

\* the caller's buffer of blen bytes (zero-filled), with the carry copied to
\* its front and the fresh bytes read into b[r.state:]
Buffer(blen, carry, fresh) ==
  CopyInto([i \in 1..blen |-> 0], carry \o fresh)

ReadPanic(blen) ==
  /\ ~panicked
  /\ eofs < MaxEofs
  /\ TooSmall(blen)
  /\ panicked' = TRUE
  /\ calls' = calls + 1
  /\ lastBuf' = blen
  /\ UNCHANGED <<input, pos, srcReads, srcEOF, state, extra, out, lastN, lastErr, eofs>>

ReadDone(blen) ==
  /\ ~panicked
  /\ eofs < MaxEofs
  /\ ~TooSmall(blen)
  /\ AtDone(state)
  /\ lastN' = 0
  /\ lastErr' = "EOF"
  /\ eofs' = eofs + 1
  /\ calls' = calls + 1
  /\ lastBuf' = blen
  /\ UNCHANGED <<input, pos, srcReads, srcEOF, state, extra, out, panicked>>

\* Lines 215-245 as a function of the reader's fields, len(b), the bytes the
\* underlying read put into b[r.state:] and whether it returned io.EOF:
\* the new fields, the returned count and error, and the bytes returned.
ReadCore(s, ex, blen, fresh, srcErr) ==
  LET b  == Buffer(blen, CarryIn(ex, s), fresh)
      sc == Scan(b, Len(fresh) + s, 1, 0)
      n  == Kept(sc.n, sc.state)
  IN [state |-> sc.state,
      extra |-> CarryOut(ex, b, sc.n, sc.state),
      n     |-> n,
      err   |-> IF n > 0 THEN "nil" ELSE srcErr,
      bytes |-> SubSeq(b, 1, n)]

\* A Read call that reaches the underlying reader.  r.r delivers k bytes:
\* at least one while input remains, none together with io.EOF once it is
\* exhausted; it may report io.EOF together with the last bytes (withEOF).
ReadScan(blen) ==
  /\ ~panicked
  /\ eofs < MaxEofs
  /\ ~TooSmall(blen)
  /\ ~AtDone(state)
  /\ LET room == blen - state
         left == Len(input) - pos
     IN \E k \in 0..Min(room, left), withEOF \in BOOLEAN :
          /\ (k = 0) <=> (left = 0)
          /\ withEOF => k = left
          /\ (k = 0) => withEOF
          /\ LET r == ReadCore(state, extra, blen, SubSeq(input, pos + 1, pos + k),
                               IF withEOF THEN "EOF" ELSE "nil")
             IN /\ pos' = pos + k
                /\ srcReads' = srcReads + 1
                /\ srcEOF' = (srcEOF \/ withEOF)
                /\ state' = r.state
                /\ extra' = r.extra
                /\ out' = out \o r.bytes
                /\ lastN' = r.n
                /\ lastErr' = r.err
                /\ eofs' = IF r.err = "EOF" THEN eofs + 1 ELSE eofs
                /\ calls' = calls + 1
                /\ lastBuf' = blen
                /\ UNCHANGED <<input, panicked>>

FilterInit ==
  /\ input \in Inputs
  /\ pos = 0
  /\ srcReads = 0
  /\ srcEOF = FALSE
  /\ state = 0
  /\ extra = [i \in 1..ExtraLen |-> 0]
  /\ out = <<>>
  /\ lastN = 0
  /\ lastErr = "none"
  /\ lastBuf = 0
  /\ calls = 0
  /\ eofs = 0
  /\ panicked = FALSE

\* ------------------------------------------------------------------------
\* func main
\* ------------------------------------------------------------------------
\* values of -d on the command line
DebugLists == {<<>>, <<"http">>, <<"nosend", "http">>, <<"bogus">>, <<"http", "bogus">>}

\* values of -b
Modes == {"m", "s"}

\* positional arguments: two addresses and one text that is no address
ArgTokens == {"p1@x", "p2@x", "bad"}

ArgLists == SeqsUpTo(ArgTokens, MaxArgs)

\* A header value is written as a sequence of words; the value of an address
\* field is the list of addresses it spells, or NoList for text that is no
\* address list.
NoList == <<"bad">>

ToValues == {<<>>, << <<"a@x", "b@x">> >>, << <<"a@x">>, <<"b@x">> >>,
             << <<"b@x", "b@x">> >>, <<NoList>>}
CcValues == {<<>>, << <<"a@x">> >>, << <<"c@x">> >>}
BccValues == {<<>>, << <<"a@x">> >>, << <<"d@x">>, <<"e@x">> >>}
FromValues == {<<>>, << <<"boss@x">> >>}
SubjectValues == {<<>>, << <<"hi">> >>, << <<"hi">>, <<"again">> >>}

\* the header map built from the values of each field; a field without
\* values is absent from the map
MakeHeader(t, c, b, f, sj) ==
  LET all == [To |-> t, Cc |-> c, Bcc |-> b, From |-> f, Subject |-> sj]
  IN [k \in {j \in DOMAIN all : all[j] # <<>>} |-> all[k]]

Headers == {MakeHeader(t, c, b, f, sj) :
              t \in ToValues, c \in CcValues, b \in BccValues,
              f \in FromValues, sj \in SubjectValues}

\* msg.Header[key]
Values(h, key) == IF key \in DOMAIN h THEN h[key] ELSE <<>>

\* the bytes of the field names, for sort.Strings
KeyBytes == [Bcc |-> <<66, 99, 99>>, Cc |-> <<67, 99>>, From |-> <<70, 114, 111, 109>>,
             Subject |-> <<83, 117, 98, 106, 101, 99, 116>>, To |-> <<84, 111>>]

\* a < b for strings given as byte sequences
RECURSIVE LexLess(_, _)
LexLess(a, b) ==
  IF b = <<>> THEN FALSE
  ELSE IF a = <<>> THEN TRUE
  ELSE IF Head(a) # Head(b) THEN Head(a) < Head(b)
  ELSE LexLess(Tail(a), Tail(b))

\* variant of SortKeys: the keys come out in descending order
RECURSIVE SortKeysDesc(_)
SortKeysDesc(S) ==
  IF S = {} THEN <<>>
  ELSE LET m == CHOOSE k \in S : \A j \in S \ {k} : LexLess(KeyBytes[j], KeyBytes[k])
       IN <<m>> \o SortKeysDesc(S \ {m})

\* sort.Strings on the keys of a map
RECURSIVE SortKeys(_)
SortKeys(S) ==
  IF S = {} THEN <<>>
  ELSE LET m == CHOOSE k \in S : \A j \in S \ {k} : LexLess(KeyBytes[k], KeyBytes[j])
       IN <<m>> \o SortKeys(S \ {m})

\* mg.Die: reports the error and exits
Die(msg) == pc' = "died" /\ dieMsg' = msg

\* the loop over dflag: the values accepted before the first unknown one
RECURSIVE DebugLoop(_, _)
DebugLoop(d, acc) ==
  IF d = <<>> THEN [bad |-> FALSE, flags |-> acc]
  ELSE IF Head(d) \notin {"http", "nosend"} THEN [bad |-> TRUE, flags |-> acc]
  ELSE DebugLoop(Tail(d), acc \cup {Head(d)})

CheckDebug ==
  /\ pc = "debug"
  /\ \E d \in DebugLists :
       LET r == DebugLoop(d, {})
       IN /\ dflag' = d
          /\ mgflags' = r.flags
          /\ IF r.bad THEN Die("unknown debug value")
             ELSE pc' = "mode" /\ dieMsg' = dieMsg
  /\ UNCHANGED <<tflag, args, to, from, stdinHeader, header, hdr, wrapped, sent,
               bflag, Fflag, fflag, user, isTTY, iflag, stdinBody>>

CheckMode ==
  /\ pc = "mode"
  /\ \E b \in Modes :
       /\ bflag' = b
       /\ IF b # "m" THEN Die("only sendmail -bm is supported")
          ELSE pc' = "args" /\ dieMsg' = dieMsg
  /\ UNCHANGED <<mgflags, tflag, args, to, from, stdinHeader, header, hdr, wrapped, sent,
               dflag, Fflag, fflag, user, isTTY, iflag, stdinBody>>

\* to.Set(arg) of mg.AddrListFlag: appends the address arg spells, or fails
AddrSet(acc, arg) ==
  IF arg = "bad" THEN [err |-> TRUE, to |-> acc]
  ELSE [err |-> FALSE, to |-> Append(acc, arg)]

\* the loop over flag.Args(): the recipients appended before the first
\* argument that is no address
RECURSIVE SetLoop(_, _)
SetLoop(a, acc) ==
  IF a = <<>> THEN [bad |-> FALSE, to |-> acc]
  ELSE LET r == AddrSet(acc, Head(a))
       IN IF r.err THEN [bad |-> TRUE, to |-> acc]
          ELSE SetLoop(Tail(a), r.to)

CheckArgs ==
  /\ pc = "args"
  /\ \E a \in ArgLists, t \in BOOLEAN :
       /\ args' = a
       /\ tflag' = t
       /\ IF Len(a) = 0 /\ ~t
          THEN Die("no delivery addresses given") /\ to' = to
          ELSE LET r == SetLoop(a, to)
               IN /\ to' = r.to
                  /\ IF r.bad THEN Die("cannot parse To: address")
                     ELSE pc' = "from" /\ dieMsg' = dieMsg
  /\ UNCHANGED <<mgflags, from, stdinHeader, header, hdr, wrapped, sent,
               dflag, bflag, Fflag, fflag, user, isTTY, iflag, stdinBody>>

\* values of -F, of -f/-r and of $USER
FullNames == {"", "Full Name"}
SenderFlags == {"", "f@x"}
Users == {"", "user"}

ResolveFrom ==
  /\ pc = "from"
  /\ \E F \in FullNames, f \in SenderFlags, u \in Users :
       /\ Fflag' = F
       /\ fflag' = f
       /\ user' = u
       /\ from' = [Name |-> F, Address |-> IF f # "" THEN f ELSE u]
       /\ IF f = "" /\ u = "" THEN Die("cannot determine From address")
          ELSE pc' = "read" /\ dieMsg' = dieMsg
  /\ UNCHANGED <<mgflags, tflag, args, to, stdinHeader, header, hdr, wrapped, sent,
               dflag, bflag, isTTY, iflag, stdinBody>>

ReadMessage ==
  /\ pc = "read"
  /\ \/ /\ Die("reading message header")
        /\ UNCHANGED <<stdinHeader, header>>
     \/ \E h \in Headers :
          /\ stdinHeader' = h
          /\ header' = h
          /\ pc' = "recipients"
          /\ dieMsg' = dieMsg
  /\ UNCHANGED <<mgflags, tflag, args, to, from, hdr, wrapped, sent,
               dflag, bflag, Fflag, fflag, user, isTTY, iflag, stdinBody>>

\* msg.Header.AddressList(key): the address list parsed from the first value
\* of the field (Header.Get)
AddressList(h, key) ==
  LET v == Values(h, key)[1]
  IN IF v = NoList THEN [err |-> TRUE, addrs |-> <<>>]
     ELSE [err |-> FALSE, addrs |-> v]

\* the loop over "To", "Cc", "Bcc"
RECURSIVE HeaderLoop(_, _, _)
HeaderLoop(h, keys, acc) ==
  IF keys = <<>> THEN [bad |-> "", to |-> acc]
  ELSE LET key == Head(keys)
       IN IF Len(Values(h, key)) = 0 THEN HeaderLoop(h, Tail(keys), acc)
          ELSE LET r == AddressList(h, key)
               IN IF r.err THEN [bad |-> key, to |-> acc]
                  ELSE HeaderLoop(h, Tail(keys), acc \o r.addrs)

RecipientKeys == <<"To", "Cc", "Bcc">>

\* variant of NoRecipients: the check of the recipient list is missing
NoRecipientsNever(t) == FALSE

\* the check after the loop, on the combined recipient list
NoRecipients(t) == Len(t) = 0

Recipients ==
  /\ pc = "recipients"
  /\ IF tflag
     THEN LET r == HeaderLoop(header, RecipientKeys, to)
          IN /\ to' = r.to
             /\ IF r.bad # "" THEN Die("cannot parse list")
                ELSE IF NoRecipients(r.to) THEN Die("no recipients found in message")
                ELSE pc' = "assemble" /\ dieMsg' = dieMsg
     ELSE to' = to /\ pc' = "assemble" /\ dieMsg' = dieMsg
  /\ UNCHANGED <<mgflags, tflag, args, from, stdinHeader, header, hdr, wrapped, sent,
               dflag, bflag, Fflag, fflag, user, isTTY, iflag, stdinBody>>

\* from.String()
AddressString(a) == <<a.Name, "<", a.Address, ">">>

\* variant of WithFrom: the From field is replaced even when present
WithFromAlways(h, a) ==
  [k \in DOMAIN h \cup {"From"} |-> IF k = "From" THEN <<AddressString(a)>> ELSE h[k]]

\* lines 173-175
WithFrom(h, a) ==
  IF Len(Values(h, "From")) = 0
  THEN [k \in DOMAIN h \cup {"From"} |-> IF k = "From" THEN <<AddressString(a)>> ELSE h[k]]
  ELSE h

\* variant of DeleteKey: the field is not deleted
DeleteKeyNoop(h, key) == h

\* delete(msg.Header, key)
DeleteKey(h, key) == [k \in DOMAIN h \ {key} |-> h[k]]

\* the line "k: v\n"
HeaderLine(k, v) == <<k, v>>

\* the line "\n"
BlankLine == <<>>

RECURSIVE WriteValues(_, _)
WriteValues(k, vs) ==
  IF vs = <<>> THEN <<>>
  ELSE <<HeaderLine(k, Head(vs))>> \o WriteValues(k, Tail(vs))

RECURSIVE WriteFields(_, _)
WriteFields(h, keys) ==
  IF keys = <<>> THEN <<>>
  ELSE WriteValues(Head(keys), h[Head(keys)]) \o WriteFields(h, Tail(keys))

\* lines 180-191
Serialize(h) == WriteFields(h, SortKeys(DOMAIN h)) \o <<BlankLine>>

Assemble ==
  /\ pc = "assemble"
  /\ LET h == DeleteKey(WithFrom(header, from), "Bcc")
     IN /\ header' = h
        /\ hdr' = Serialize(h)
  /\ pc' = "body"
  /\ UNCHANGED <<dieMsg, mgflags, tflag, args, to, from, stdinHeader, wrapped, sent,
               dflag, bflag, Fflag, fflag, user, isTTY, iflag, stdinBody>>

\* variant of UseFilter: -i is ignored
UseFilterAlways(tty, i) == tty

\* the condition under which body is wrapped in a dotStopReader
UseFilter(tty, i) == tty /\ ~i

WrapBody ==
  /\ pc = "body"
  /\ \E tty \in BOOLEAN, i \in BOOLEAN :
       /\ isTTY' = tty
       /\ iflag' = i
       /\ wrapped' = UseFilter(tty, i)
  /\ pc' = "send"
  /\ UNCHANGED <<dieMsg, mgflags, tflag, args, to, from, stdinHeader, header, hdr, sent,
               dflag, bflag, Fflag, fflag, user, stdinBody>>

\* message bodies on stdin: "a\n" and "a\n.\nb"
Bodies == {<<97, LF>>, <<97, LF, DOT, LF, 98>>}

\* the byte strings a caller can obtain from a dotStopReader over inp by
\* calling Read up to the first end-of-stream, for every way the underlying
\* reader may cut inp and every buffer length from MinBuf to MaxBuf; p bytes
\* are consumed, s and ex are the reader's fields, acc the bytes obtained
RECURSIVE ReadAll(_, _, _, _, _)
ReadAll(inp, p, s, ex, acc) ==
  IF AtDone(s) THEN {acc}
  ELSE LET left == Len(inp) - p
           cuts == {c \in (MinBuf..MaxBuf) \X (0..left) \X BOOLEAN :
                      /\ c[2] <= c[1] - s
                      /\ (c[2] = 0) <=> (left = 0)
                      /\ c[3] => c[2] = left
                      /\ (c[2] = 0) => c[3]}
       IN UNION {LET r == ReadCore(s, ex, c[1], SubSeq(inp, p + 1, p + c[2]),
                                   IF c[3] THEN "EOF" ELSE "nil")
                 IN IF r.err = "EOF" THEN {acc}
                    ELSE ReadAll(inp, p + c[2], r.state, r.extra, acc \o r.bytes)
                 : c \in cuts}

\* ReadAll for each body, from a fresh dotStopReader
Filtered == [b \in Bodies |-> ReadAll(b, 0, 0, [i \in 1..ExtraLen |-> 0], <<>>)]

\* the bytes mg.MailMIME can read from body: those of stdin, or what the
\* dotStopReader around it returns
BodyRead(filtered, b) == IF filtered THEN Filtered[b] ELSE {b}

\* mg.MailMIME(from, to, mime), which reads the header block and then body
Send ==
  /\ pc = "send"
  /\ \E b \in Bodies :
       /\ stdinBody' = b
       /\ \E o \in BodyRead(wrapped, b) :
            sent' = Append(sent, [from |-> from, to |-> to, hdr |-> hdr,
                                  filtered |-> wrapped, body |-> o])
  /\ pc' = "done"
  /\ UNCHANGED <<dieMsg, mgflags, tflag, args, to, from, stdinHeader, header, hdr, wrapped,
               dflag, bflag, Fflag, fflag, user, isTTY, iflag>>

MainStart(p) ==
  /\ pc = p
  /\ dieMsg = ""
  /\ mgflags = {}
  /\ tflag = FALSE
  /\ args = <<>>
  /\ to = <<>>
  /\ from = [Name |-> "", Address |-> ""]
  /\ stdinHeader = <<>>
  /\ header = <<>>
  /\ hdr = <<>>
  /\ wrapped = FALSE
  /\ sent = <<>>
  /\ dflag = <<>>
  /\ bflag = "m"
  /\ Fflag = ""
  /\ fflag = ""
  /\ user = ""
  /\ isTTY = FALSE
  /\ iflag = FALSE
  /\ stdinBody = <<>>

\* ------------------------------------------------------------------------
\* Specifications
\* ------------------------------------------------------------------------
vars == <<fvars, mvars>>

\* the reader alone: func main does not run
Init == FilterInit /\ MainStart("off")

Next ==
  \/ (\E blen \in BufLens : ReadPanic(blen)) /\ UNCHANGED mvars
  \/ (\E blen \in BufLens : ReadDone(blen)) /\ UNCHANGED mvars
  \/ (\E blen \in BufLens : ReadScan(blen)) /\ UNCHANGED mvars

Spec == Init /\ [][Next]_vars

\* the reader under a caller that passes buffers of at least MinBuf bytes
\* and keeps calling Read
LiveNext ==
  \/ (\E blen \in MinBuf..MaxBuf : ReadDone(blen)) /\ UNCHANGED mvars
  \/ (\E blen \in MinBuf..MaxBuf : ReadScan(blen)) /\ UNCHANGED mvars

\* The consumer calls Read once more.  Every step of LiveNext is such a
\* call, and with len(b) >= MinBuf a call is possible exactly when the
\* reader has not panicked and the bound on returned EOFs is not reached:
\* ReadDone is enabled in state 3, ReadScan in every other state.
Call == ~panicked /\ eofs < MaxEofs /\ calls' = calls + 1

LiveSpec == Init /\ [][LiveNext]_vars /\ WF_calls(Call)

\* func main up to the call of mg.MailMIME: the reader is not driven
MainInit ==
  /\ MainStart("debug")
  /\ input = <<>>
  /\ pos = 0
  /\ srcReads = 0
  /\ srcEOF = FALSE
  /\ state = 0
  /\ extra = [i \in 1..ExtraLen |-> 0]
  /\ out = <<>>
  /\ lastN = 0
  /\ lastErr = "none"
  /\ lastBuf = 0
  /\ calls = 0
  /\ eofs = 0
  /\ panicked = FALSE

MainStep ==
  \/ CheckDebug /\ UNCHANGED fvars
  \/ CheckMode /\ UNCHANGED fvars
  \/ CheckArgs /\ UNCHANGED fvars
  \/ ResolveFrom /\ UNCHANGED fvars
  \/ ReadMessage /\ UNCHANGED fvars
  \/ Recipients /\ UNCHANGED fvars
  \/ Assemble /\ UNCHANGED fvars
  \/ WrapBody /\ UNCHANGED fvars
  \/ Send /\ UNCHANGED fvars

MainSpec == MainInit /\ [][MainStep]_vars

\* ------------------------------------------------------------------------
\* Properties of dotStopReader (specification Spec)
\* ------------------------------------------------------------------------
\* s has a line break, '.', line break at (1-based) positions i, i+1, i+2
TermAt(s, i) ==
  /\ i + 2 <= Len(s)
  /\ IsBreak(s[i]) /\ s[i + 1] = DOT /\ IsBreak(s[i + 2])

TermStarts(s) == {i \in 1..Len(s) : TermAt(s, i)}

NoTerm(s) == TermStarts(s) = {}

\* position of the first byte of the first terminator of s
FirstTerm(s) == CHOOSE i \in TermStarts(s) : \A j \in TermStarts(s) : i <= j

IsPrefix(p, s) == Len(p) <= Len(s) /\ p = SubSeq(s, 1, Len(p))

\* the output of the run in which r.r delivers one byte per read and the
\* caller passes buffers of MinBuf bytes, up to the first end-of-stream
RECURSIVE ByteWise(_, _, _, _, _)
ByteWise(inp, p, s, ex, acc) ==
  IF AtDone(s) THEN acc
  ELSE LET k == IF p < Len(inp) THEN 1 ELSE 0
           r == ReadCore(s, ex, MinBuf, SubSeq(inp, p + 1, p + k),
                         IF k = 0 THEN "EOF" ELSE "nil")
       IN IF r.err = "EOF" THEN acc
          ELSE ByteWise(inp, p + k, r.state, r.extra, acc \o r.bytes)

ByteWiseOut(inp) == ByteWise(inp, 0, 0, [i \in 1..ExtraLen |-> 0], <<>>)

\* C1: for an input without a terminator, once end-of-stream has been
\* returned the bytes returned equal the whole input, and the underlying
\* reader has reported exhaustion.
C1_Passthrough ==
  (NoTerm(input) /\ eofs >= 1) => (out = input /\ srcEOF)

\* C2: for an input with exactly one terminator, the bytes returned before
\* end-of-stream do not depend on the fragmentation: they equal those of the
\* run that receives the input one byte per read.
C2_ChunkIndependent ==
  (Cardinality(TermStarts(input)) = 1 /\ eofs >= 1) => out = ByteWiseOut(input)

\* C3: for an input with a terminator, once end-of-stream has been returned
\* the bytes returned are exactly the input bytes before the first terminator.
C3_Stripped ==
  (~NoTerm(input) /\ eofs >= 1) => out = SubSeq(input, 1, FirstTerm(input) - 1)

\* C4: on the input "a\r\n..\r\nb" the reader never reaches state 3 and at
\* end-of-stream has returned the input unchanged.
C4_TwoDotsPass ==
  input = TwoDots => (state # Done /\ (eofs >= 1 => out = TwoDots))

\* C5: a Read call with len(b) >= 4 made in state 3 returns 0 and io.EOF,
\* does not read from r.r and leaves the state at 3.
C5_DoneAbsorbing ==
  [][(state = Done /\ calls' = calls + 1 /\ lastBuf' >= MinBuf)
       => (lastN' = 0 /\ lastErr' = "EOF" /\ state' = Done
           /\ srcReads' = srcReads /\ pos' = pos /\ out' = out)]_vars

\* a Read call has been answered in state 3, twice
C5_Witness == state = Done /\ eofs >= 2 /\ lastErr = "EOF" /\ lastBuf >= MinBuf

\* C6: a Read call with len(b) < 4 panics, in every state, without reading
\* from r.r and without changing state or extra.
C6_UndersizedPanics ==
  [][(calls' = calls + 1 /\ lastBuf' < MinBuf)
       => (panicked' /\ state' = state /\ extra' = extra
           /\ srcReads' = srcReads /\ pos' = pos /\ out' = out)]_vars

\* an undersized Read call has panicked on a finished reader
C6_Witness == panicked /\ state = Done /\ lastBuf < MinBuf

\* C7: while the reader is not in state 3, the bytes returned so far followed
\* by the saved bytes extra[:state] are exactly the bytes consumed from r.r.
C7_NoLossNoDup ==
  state # Done => out \o CarryIn(extra, state) = SubSeq(input, 1, pos)

\* bytes have been returned, two bytes are saved and input remains
C7_Witness ==
  state = 2 /\ Len(out) > 0 /\ calls >= 2 /\ pos < Len(input) /\ ~panicked

\* C8: once the third byte of the first terminator has been consumed the
\* reader is in state 3, however the reads were cut, and no byte after the
\* terminator is ever returned.
C8_SplitDetected ==
  ~NoTerm(input) =>
    LET e == FirstTerm(input) + 2
    IN /\ pos >= e => state = Done
       /\ IsPrefix(out, SubSeq(input, 1, e))

\* the terminator arrived one byte per read and the reader stopped on its
\* third byte
C8_Witness ==
  /\ ~NoTerm(input)
  /\ FirstTerm(input) > 1
  /\ pos = FirstTerm(input) + 2
  /\ srcReads = pos
  /\ state = Done

\* ------------------------------------------------------------------------
\* Properties of func main (specification MainSpec)
\* ------------------------------------------------------------------------
\* the field names of the lines of a serialized header block
LineKeys(block) == {block[i][1] : i \in {j \in 1..Len(block) : block[j] # BlankLine}}

\* C9: the header block of every mg.MailMIME call has no Bcc line, with or
\* without -t and with or without a Bcc field in the input.
C9_NoBccSent ==
  \A i \in 1..Len(sent) : "Bcc" \notin LineKeys(sent[i].hdr)

\* a message with a Bcc field has been sent without -t
C9_Witness ==
  Len(sent) = 1 /\ ~tflag /\ "Bcc" \in DOMAIN stdinHeader

\* the addresses of all values of a field, in header order
RECURSIVE AllAddrs(_)
AllAddrs(vs) == IF vs = <<>> THEN <<>> ELSE Head(vs) \o AllAddrs(Tail(vs))

\* the recipients appended to the positional ones
Derived == SubSeq(to, Len(args) + 1, Len(to))

\* C10: with -t, once the header fields have been read the recipients taken
\* from the message are all addresses of To, then of Cc, then of Bcc, in
\* header order and with repeats.
C10_DerivedOrder ==
  (tflag /\ pc \in {"assemble", "body", "send", "done"}) =>
     Derived = AllAddrs(Values(stdinHeader, "To"))
               \o AllAddrs(Values(stdinHeader, "Cc"))
               \o AllAddrs(Values(stdinHeader, "Bcc"))

\* the message read from stdin has none of the To, Cc and Bcc fields
NoRecipientFields == DOMAIN stdinHeader \cap {"To", "Cc", "Bcc"} = {}

\* func main has passed the steps up to and including the recipient loop
PastRecipients == pc \in {"assemble", "body", "send", "done"}

\* C11 as claimed: with -t and a message without To, Cc and Bcc the run
\* does not get past the recipient loop and mg.MailMIME is not called.
C11_NoHeaderRecipientsFatal ==
  (tflag /\ NoRecipientFields) => (~PastRecipients /\ sent = <<>>)

\* C11 as amended: with -t, a message without To, Cc and Bcc and no
\* positional address, the run does not get past the recipient loop and
\* mg.MailMIME is not called.
C11_NoRecipientsFatal ==
  (tflag /\ NoRecipientFields /\ Len(args) = 0) => (~PastRecipients /\ sent = <<>>)

\* the run has died in the recipient loop for want of any recipient
C11_Witness ==
  /\ pc = "died"
  /\ dieMsg = "no recipients found in message"
  /\ tflag /\ NoRecipientFields /\ Len(args) = 0
  /\ sent = <<>>

\* the values of the lines of field key in a serialized header block, in order
RECURSIVE FieldLines(_, _)
FieldLines(block, key) ==
  IF block = <<>> THEN <<>>
  ELSE LET l == Head(block)
       IN (IF l # BlankLine /\ l[1] = key THEN <<l[2]>> ELSE <<>>)
          \o FieldLines(Tail(block), key)

\* the default sender the command line and the environment resolve to
DefaultSender == [Name |-> Fflag, Address |-> IF fflag # "" THEN fflag ELSE user]

\* func main has passed the resolution of the default sender
PastFrom == pc \in {"read", "recipients", "assemble", "body", "send", "done"}

\* C12: a sent header block has, for a message without From, exactly one
\* From line, the default sender (-f/-r, else $USER, with the -F name); for
\* a message with From, its From values unchanged; and without -f/-r and
\* $USER the run dies on the sender and nothing is sent.
C12_SenderFallback ==
  /\ \A i \in 1..Len(sent) :
       FieldLines(sent[i].hdr, "From") =
         IF "From" \in DOMAIN stdinHeader THEN stdinHeader["From"]
         ELSE <<AddressString(DefaultSender)>>
  /\ PastFrom => (from = DefaultSender /\ DefaultSender.Address # "")
  /\ dieMsg = "cannot determine From address" =>
       (pc = "died" /\ fflag = "" /\ user = "" /\ sent = <<>>)

\* a message without From has been sent with the sender taken from $USER
C12_Witness ==
  /\ Len(sent) = 1
  /\ "From" \notin DOMAIN stdinHeader
  /\ fflag = "" /\ user = "user" /\ Fflag = "Full Name"

\* the field names a header block can hold
FieldNames == DOMAIN KeyBytes

\* block is a sequence of field lines in ascending order of field name,
\* the lines of one field adjacent, closed by its only blank line
WellOrdered(block) ==
  /\ Len(block) >= 1
  /\ block[Len(block)] = BlankLine
  /\ \A i \in 1..(Len(block) - 1) : block[i] # BlankLine
  /\ \A i \in 1..(Len(block) - 2) :
       \/ block[i][1] = block[i + 1][1]
       \/ LexLess(KeyBytes[block[i][1]], KeyBytes[block[i + 1][1]])

\* C13: a sent header block lists the fields in ascending order of name,
\* has one line per value with the values of a field in the order of the
\* input, and ends with exactly one blank line.
C13_Serialized ==
  \A i \in 1..Len(sent) :
    /\ WellOrdered(sent[i].hdr)
    /\ \A k \in FieldNames : FieldLines(sent[i].hdr, k) = Values(header, k)
    /\ \A k \in FieldNames \ {"From", "Bcc"} :
         FieldLines(sent[i].hdr, k) = Values(stdinHeader, k)

\* a message with To, Cc and a Subject given twice has been sent
C13_Witness ==
  /\ Len(sent) = 1
  /\ {"To", "Cc"} \subseteq DOMAIN stdinHeader
  /\ Len(Values(stdinHeader, "Subject")) = 2

\* C14: body is wrapped in a dotStopReader exactly when stdin is a terminal
\* and -i was not given; otherwise the body bytes mg.MailMIME reads are the
\* bytes of stdin, also when they hold a line break, '.', line break.
C14_FilterOnlyInteractive ==
  \A i \in 1..Len(sent) :
    /\ sent[i].filtered <=> (isTTY /\ ~iflag)
    /\ ~(isTTY /\ ~iflag) => sent[i].body = stdinBody

\* a body with a "." line has been sent whole from a terminal under -i
C14_Witness ==
  /\ Len(sent) = 1
  /\ isTTY /\ iflag
  /\ ~NoTerm(stdinBody)
  /\ sent[1].body = stdinBody

\* the inputs of the run pass every fatal check of func main
ChecksPassed ==
  /\ dieMsg = ""
  /\ \A i \in 1..Len(dflag) : dflag[i] \in {"http", "nosend"}
  /\ bflag = "m"
  /\ Len(args) > 0 \/ tflag
  /\ \A i \in 1..Len(args) : args[i] # "bad"
  /\ fflag # "" \/ user # ""
  /\ tflag => \A k \in DOMAIN stdinHeader \cap {"To", "Cc", "Bcc"} :
                stdinHeader[k][1] # NoList
  /\ Len(to) > 0

\* C15: mg.MailMIME is called at most once, only in a run that has passed
\* every fatal check, and never in a run that has died.
C15_AllOrNothing ==
  /\ Len(sent) <= 1
  /\ pc = "died" => (sent = <<>> /\ dieMsg # "")
  /\ dieMsg # "" => pc = "died"
  /\ sent # <<>> => (pc = "done" /\ ChecksPassed /\ sent[1].to = to)

\* a run with debug values and -t has passed every check and has sent
C15_Witness ==
  Len(sent) = 1 /\ pc = "done" /\ dflag # <<>> /\ tflag /\ Len(args) > 0

\* ------------------------------------------------------------------------
\* Further properties of dotStopReader
\* ------------------------------------------------------------------------
\* the transition table: Idle 0, SawBreak 1, SawDot 2, Done 3
TableStep(s, c) ==
  CASE s = 0 -> IF IsBreak(c) THEN 1 ELSE 0
    [] s = 1 -> IF IsBreak(c) THEN 1 ELSE IF c = DOT THEN 2 ELSE 0
    [] s = 2 -> IF IsBreak(c) THEN 3 ELSE 0
    [] OTHER -> s

\* the table applied to the bytes of a chunk in turn, stopping at Done
RECURSIVE TableScan(_, _)
TableScan(bytes, s) ==
  IF bytes = <<>> \/ s = Done THEN s
  ELSE TableScan(Tail(bytes), TableStep(s, Head(bytes)))

\* C16: the state a Read call leaves is the one the transition table gives
\* for the bytes it scanned (the saved bytes followed by the fresh ones),
\* and an input without a terminator never leads to state 3.
C16_TableConformance ==
  [][srcReads' = srcReads + 1 =>
       /\ state' = TableScan(CarryIn(extra, state) \o SubSeq(input, pos + 1, pos'), 0)
       /\ NoTerm(input) => state' # Done]_vars
\* C17: after a Read call that has not reached state 3 the saved bytes
\* extra[:state] are at most 2, one in state 1 and two in state 2, they are
\* the bytes consumed last, and they are the part of the pattern matched so
\* far: a line break in state 1, a line break and '.' in state 2.
C17_CarryIsPattern ==
  (state # Done /\ calls > 0) =>
     /\ state <= 2
     /\ Len(CarryIn(extra, state)) = state
     /\ CarryIn(extra, state) = SubSeq(input, pos - state + 1, pos)
     /\ state = 1 => IsBreak(extra[1])
     /\ state = 2 => (IsBreak(extra[1]) /\ extra[2] = DOT)
\* C18: a Read call with len(b) >= 4 returns a count between 0 and len(b),
\* returns io.EOF only with the count 0, and when it reads from r.r offers
\* it at least 2 free bytes of b.
C18_InBounds ==
  [][(calls' = calls + 1 /\ lastBuf' >= MinBuf) =>
       /\ 0 <= lastN' /\ lastN' <= lastBuf'
       /\ Len(out') = Len(out) + lastN'
       /\ lastErr' # "nil" => lastN' = 0
       /\ srcReads' # srcReads => lastBuf' - state >= 2]_vars

\* a Read call has filled a buffer of 4 bytes to the end
C18_Witness == lastBuf = MinBuf /\ lastN = MinBuf /\ calls >= 2 /\ ~panicked
\* C19: under a caller that keeps calling Read with len(b) >= 4, on a finite
\* input after which r.r reports io.EOF, a Read call eventually returns
\* io.EOF, and every Read call after one that returned io.EOF returns 0 and
\* io.EOF.
C19_StreamEnds ==
  /\ <>(eofs >= 1)
  /\ [][(eofs >= 1 /\ calls' = calls + 1) => (lastN' = 0 /\ lastErr' = "EOF")]_vars

\* io.EOF has been returned twice on an input that was read to its end
\* without reaching state 3
C19_Witness ==
  eofs >= 2 /\ state # Done /\ Len(input) > 0 /\ pos = Len(input) /\ Len(out) > 0
\* C20: with -t and positional addresses, the recipient list handed to
\* mg.MailMIME is the positional addresses in command-line order followed
\* by the To, Cc and Bcc addresses, and the run does not die of missing
\* header recipients.
C20_Combined ==
  (tflag /\ Len(args) > 0) =>
     /\ dieMsg # "no recipients found in message"
     /\ Len(sent) = 1 =>
          sent[1].to = args \o AllAddrs(Values(stdinHeader, "To"))
                            \o AllAddrs(Values(stdinHeader, "Cc"))
                            \o AllAddrs(Values(stdinHeader, "Bcc"))

====
